---- MODULE Spec2Model ----
(***************************************************************************)
(* M-Pesa contribution / reversal reconciliation of the crowdfunding       *)
(* backend: the contributions and campaigns tables with the database       *)
(* trigger on contributions, the MPesa class (config/mpesa), the contribute *)
(* route and the admin refund route.  Spec runs every HTTP handler to       *)
(* completion as one action; SpecAnyTable handles one request, database     *)
(* faults included, on any table the schema admits; SpecConcurrent and      *)
(* SpecContribute take the handlers one await at a time.                    *)
(***************************************************************************)
EXTENDS Integers, Sequences, FiniteSets, TLC

\* ------------------------------------------------------------------ bounds
MaxContrib == 1      \* rows the contributions table may hold
NumCampaigns == 2    \* rows of the campaigns table
MaxAmount == 2       \* largest amount a contributor asks for
MaxFunding == 4      \* handlers are not explored past this funding total
MaxConcurrent == 2   \* rows the handlers in flight work on
MaxRequests == 3     \* callback and refund requests served one await at a time

\* ------------------------------------------------------- program constants
MinChargeAmount == 1
MaxChargeAmount == 300000

ContribIds == 1..MaxContrib
CampaignIds == 1..NumCampaigns
Amounts == 1..MaxAmount

Null == "null"
Receipts == {"RA", "RB"}
Statuses == {"pending", "completed", "failed", "refund_pending", "refunded", "refund_failed"}

\* A JSON result code keeps its type: the handlers compare with ===.
Num(n) == [t |-> "num", v |-> n]
Str(n) == [t |-> "str", v |-> n]
IsNumZero(rc) == rc.t = "num" /\ rc.v = 0
\* A field the body does not carry (undefined).
Undef == [t |-> "undef", v |-> 0]

Max(a, b) == IF a >= b THEN a ELSE b

\* ----------------------------------------------------------------- tables
\* running holds the handlers served one await at a time: where each is
\* and what it has read (all idle when handlers run to completion).
\* mpesa: whether require("../config/mpesa") succeeded when the route
\* files were loaded (the routes keep null otherwise).
VARIABLES contributions, funding, last, running, mpesa
vars == <<contributions, funding, last, running, mpesa>>

\* A row of contributions; exists = FALSE is a row not inserted yet.
NoRow ==
  [exists |-> FALSE, campaign_id |-> 1, amount |-> 1, status |-> "pending",
   payment_method |-> "mpesa", transaction_id |-> Null,
   mpesa_checkout_request_id |-> 0, processed_at |-> FALSE,
   refund_error |-> Null,
   reversal_conversation_id |-> Null,
   reversal_originator_conversation_id |-> Null]

\* CHECK (current_funding >= 0) of the campaigns table: a write of a
\* negative total is rejected and the row keeps its value.
campaigns_update(f, campaignId, value) ==
  IF value < 0 THEN f ELSE [f EXCEPT ![campaignId] = value]

\* AFTER INSERT OR UPDATE trigger on contributions.
update_campaign_funding(f, oldStatus, new) ==
  LET c == new.campaign_id
      f1 == IF new.status = "completed" /\ oldStatus # "completed"
            THEN [f EXCEPT ![c] = f[c] + new.amount] ELSE f
      f2 == IF new.status = "refunded" /\ oldStatus # "refunded"
            THEN [f1 EXCEPT ![c] = Max(f1[c] - new.amount, 0)] ELSE f1
      f3 == IF oldStatus = "completed" /\ new.status = "failed"
            THEN [f2 EXCEPT ![c] = Max(f2[c] - new.amount, 0)] ELSE f2
  IN f3

\* supabase.from('contributions').update(row).eq('id', id): the row is
\* written and the trigger runs in the same statement.
contributions_update(db, id, new) ==
  [contributions |-> [db.contributions EXCEPT ![id] = new],
   funding |-> update_campaign_funding(db.funding, db.contributions[id].status, new)]

\* The increment RPC is called by the code and defined in no migration.
increment_campaign_funding(f, campaignId, amount) ==
  [f EXCEPT ![campaignId] = Max(f[campaignId] + amount, 0)]

\* MPesa.updateCampaignFunding.  fRead is the campaigns table seen by the
\* fallback select, fWrite the table at the time of the write.
updateCampaignFunding(fRead, fWrite, campaignId, amount, rpcError) ==
  IF ~rpcError
  THEN increment_campaign_funding(fWrite, campaignId, amount)
  ELSE campaigns_update(fWrite, campaignId, fRead[campaignId] + amount)

\* ------------------------------------------------------------- gateway
\* What the upstream gateway does with an initiation request.
GatewayOutcomes == {"accept", "reject", "timeout"}

\* An amount a request body carries may have a fraction: it is held in
\* halves, h standing for h / 2.  Math.floor gives a whole number.
Halves(n) == 2 * n
MathFloor_up(h) == (h + 1) \div 2
MathFloor(h) == h \div 2

\* MPesa.initiateSTKPush(phoneNumber, amount, contributionId), amount in
\* halves.  The checkout id the gateway issues for an accepted push is
\* unique; it is modelled by the id of the contribution the push was made
\* for.  sent: whether any request went out to the gateway.
initiateSTKPush(amount, contributionId, gw) ==
  IF amount = 0 \/ contributionId = 0
  THEN [success |-> FALSE, CheckoutRequestID |-> 0, sent |-> FALSE,
        message |-> "Payment initiation failed: Missing required parameters for STK push"]
  ELSE IF MathFloor(amount) < MinChargeAmount \/ MathFloor(amount) > MaxChargeAmount
  THEN [success |-> FALSE, CheckoutRequestID |-> 0, sent |-> FALSE,
        message |-> "Payment initiation failed: Invalid amount: must be between 1 and 300,000 KES"]
  ELSE IF gw = "accept"
  THEN [success |-> TRUE, CheckoutRequestID |-> contributionId, sent |-> TRUE,
        message |-> "ok"]
  ELSE IF gw = "timeout"
  THEN [success |-> FALSE, CheckoutRequestID |-> 0, sent |-> TRUE,
        message |-> "M-Pesa service timeout - please try again"]
  ELSE [success |-> FALSE, CheckoutRequestID |-> 0, sent |-> TRUE,
        message |-> "Payment initiation failed: MPesa Error"]

\* Whether the identifier `occasion` is bound where initiateReversal builds
\* its request: the method has no such parameter and the module no such
\* variable, so evaluating it throws a ReferenceError.
occasionDefined == FALSE

\* MPesa.initiateReversal(transactionId, amount, remarks).
initiateReversal(transactionId, amount, gw) ==
  IF amount < MinChargeAmount \/ amount > MaxChargeAmount
  THEN [success |-> FALSE, ConversationID |-> Null, OriginatorConversationID |-> Null,
        message |-> "Reversal initiation failed: Invalid reversal amount: must be between 1 and 300,000 KES"]
  ELSE IF ~occasionDefined
  THEN [success |-> FALSE, ConversationID |-> Null, OriginatorConversationID |-> Null,
        message |-> "Reversal initiation failed: occasion is not defined"]
  ELSE IF gw = "accept"
  THEN [success |-> TRUE, ConversationID |-> "AG1", OriginatorConversationID |-> "OR1",
        message |-> "ok"]
  ELSE IF gw = "timeout"
  THEN [success |-> FALSE, ConversationID |-> Null, OriginatorConversationID |-> Null,
        message |-> "M-Pesa reversal service timeout - please try again"]
  ELSE [success |-> FALSE, ConversationID |-> Null, OriginatorConversationID |-> Null,
        message |-> "Reversal initiation failed: M-Pesa Reversal Error"]

\* ------------------------------------------------------ charge callback
Item(n, v) == [Name |-> n, Value |-> v]

NoDetails ==
  [mpesaReceiptNumber |-> Null, amount |-> Undef, transactionDate |-> Null,
   phoneNumber |-> Null, balance |-> Null]

\* MPesa.parseCallbackMetadata: one pass over CallbackMetadata.Item, a later
\* item of the same name replacing an earlier one.
RECURSIVE parseItems(_, _)
parseItems(items, details) ==
  IF items = <<>> THEN details
  ELSE LET item == Head(items)
           d == CASE item.Name = "Amount" -> [details EXCEPT !.amount = item.Value]
                  [] item.Name = "MpesaReceiptNumber" -> [details EXCEPT !.mpesaReceiptNumber = item.Value]
                  [] item.Name = "TransactionDate" -> [details EXCEPT !.transactionDate = item.Value]
                  [] item.Name = "PhoneNumber" -> [details EXCEPT !.phoneNumber = item.Value]
                  [] item.Name = "Balance" -> [details EXCEPT !.balance = item.Value]
                  [] OTHER -> details
       IN parseItems(Tail(items), d)

parseCallbackMetadata(items) == parseItems(items, NoDetails)

\* .eq(column, value).single(): the row when exactly one matches.
single_any(S) == IF S = {} THEN 1 ELSE CHOOSE c \in S : TRUE
single(S) == IF Cardinality(S) = 1 THEN CHOOSE c \in S : TRUE ELSE 0

Reply(db, success, message, cid) ==
  [db |-> db, success |-> success, message |-> message, cid |-> cid]

\* The status a charge callback writes: ResultCode === 0 or anything else.
chargeStatus_loose(rc) == IF rc.v = 0 THEN "completed" ELSE "failed"
chargeStatus(rc) == IF IsNumZero(rc) THEN "completed" ELSE "failed"

\* The amount handed to updateCampaignFunding: the one of the row selected.
creditAmount_echoed(contribution, transactionDetails) ==
  IF transactionDetails.amount.t = "num"
  THEN transactionDetails.amount.v ELSE contribution.amount
creditAmount(contribution, transactionDetails) == contribution.amount

\* "Only update campaign funding if payment successful and not already
\* processed".
shouldCredit_always(rc, contribution) == IsNumZero(rc)
shouldCredit(rc, contribution) ==
  IsNumZero(rc) /\ contribution.status # "completed"

\* How a database call of a callback handler can go wrong: the contributions
\* update answers with an error (the statement changes nothing, trigger
\* included), or the call inside updateCampaignFunding rejects and its catch
\* rethrows.
Faults == {"updateError", "fundingThrows"}

\* MPesa.handleContributionCallback(callbackData).  rpcError: the increment
\* RPC answers with an error; readFirst: the fallback's select of the
\* campaign row is served before the contribution update of the same
\* Promise.all commits; fault: "none" or one of Faults.  The error of the
\* contributions update is not looked at; a rejected updateCampaignFunding
\* rejects the Promise.all, whose other operation is under way.
handleContributionCallback(db, p, rpcError, readFirst, fault) ==
  IF p.shape = "test" THEN Reply(db, TRUE, "Test callback received", 0)
  ELSE IF p.shape = "noBody" THEN Reply(db, FALSE, "Invalid callback format", 0)
  ELSE IF p.CheckoutRequestID = 0 THEN Reply(db, FALSE, "Missing CheckoutRequestID", 0)
  ELSE
    LET transactionDetails == parseCallbackMetadata(p.Item)
        id == single({c \in DOMAIN db.contributions :
                 /\ db.contributions[c].exists
                 /\ db.contributions[c].mpesa_checkout_request_id = p.CheckoutRequestID})
    IN IF id = 0 THEN Reply(db, FALSE, "Contribution not found", 0)
       ELSE IF p.ResultCode.t = "undef" THEN Reply(db, FALSE, "Callback processing failed", id)
       ELSE
         LET contribution == db.contributions[id]
             updated ==
               IF chargeStatus(p.ResultCode) = "completed"
               THEN [contribution EXCEPT
                       !.status = "completed",
                       !.processed_at = TRUE,
                       !.transaction_id =
                          IF transactionDetails.mpesaReceiptNumber # Null
                          THEN transactionDetails.mpesaReceiptNumber ELSE @]
               ELSE [contribution EXCEPT !.status = "failed"]
             written == IF fault = "updateError" THEN db
                        ELSE contributions_update(db, id, updated)
             credited ==
               IF shouldCredit(p.ResultCode, contribution)
               THEN updateCampaignFunding(
                      IF readFirst THEN db.funding ELSE written.funding,
                      written.funding, contribution.campaign_id,
                      creditAmount(contribution, transactionDetails), rpcError)
               ELSE written.funding
         IN IF shouldCredit(p.ResultCode, contribution) /\ fault = "fundingThrows"
            THEN Reply(written, FALSE, "Callback processing failed", id)
            ELSE Reply([contributions |-> written.contributions, funding |-> credited],
                       TRUE, "Callback processed successfully", id)

\* ---------------------------------------------------- reversal callback
Param(k, v) == [Key |-> k, Value |-> v]

NoReversalDetails ==
  [originalTransactionID |-> Null, amount |-> Null, debitAccountBalance |-> Null,
   transCompletedTime |-> Null, charge |-> Null, creditPartyPublicName |-> Null,
   debitPartyPublicName |-> Null]

RECURSIVE parseParams(_, _)
parseParams(params, details) ==
  IF params = <<>> THEN details
  ELSE LET param == Head(params)
           d == CASE param.Key = "OriginalTransactionID" -> [details EXCEPT !.originalTransactionID = param.Value]
                  [] param.Key = "Amount" -> [details EXCEPT !.amount = param.Value]
                  [] param.Key = "DebitAccountBalance" -> [details EXCEPT !.debitAccountBalance = param.Value]
                  [] param.Key = "TransCompletedTime" -> [details EXCEPT !.transCompletedTime = param.Value]
                  [] param.Key = "Charge" -> [details EXCEPT !.charge = param.Value]
                  [] param.Key = "CreditPartyPublicName" -> [details EXCEPT !.creditPartyPublicName = param.Value]
                  [] param.Key = "DebitPartyPublicName" -> [details EXCEPT !.debitPartyPublicName = param.Value]
                  [] OTHER -> details
       IN parseParams(Tail(params), d)

\* MPesa.parseReversalResultParameters, the definition the class ends up with.
parseReversalResultParameters(params) == parseParams(params, NoReversalDetails)

\* MPesa.handleReversalCallback(callbackData), the definition the class ends
\* up with (a later method of the same name replaces the earlier one).  An
\* error of the contributions update is thrown; updateCampaignFunding is
\* awaited after the update.
handleReversalCallback(db, p, rpcError, fault) ==
  IF p.shape = "noResult" THEN Reply(db, FALSE, "Invalid reversal callback format", 0)
  ELSE
    LET resultParams == parseReversalResultParameters(p.ResultParameter)
        key == IF resultParams.originalTransactionID # Null
               THEN resultParams.originalTransactionID ELSE p.TransactionID
        id == single({c \in DOMAIN db.contributions :
                 /\ db.contributions[c].exists
                 /\ key # Null
                 /\ db.contributions[c].transaction_id = key})
    IN IF id = 0 THEN Reply(db, FALSE, "Original contribution not found", 0)
       ELSE IF p.ResultCode.t = "undef"
       THEN Reply(db, FALSE, "Reversal callback processing failed", id)
       ELSE
         LET contribution == db.contributions[id]
             withConv == [contribution EXCEPT
                            !.reversal_conversation_id =
                               IF p.ConversationID # Null THEN p.ConversationID ELSE @]
             updated ==
               IF IsNumZero(p.ResultCode)
               THEN [withConv EXCEPT !.status = "refunded"]
               ELSE withConv
             written == contributions_update(db, id, updated)
             debited ==
               IF IsNumZero(p.ResultCode)
               THEN updateCampaignFunding(written.funding, written.funding,
                      contribution.campaign_id, 0 - contribution.amount, rpcError)
               ELSE written.funding
         IN IF fault = "updateError"
            THEN Reply(db, FALSE, "Reversal callback processing failed", id)
            ELSE IF IsNumZero(p.ResultCode) /\ fault = "fundingThrows"
            THEN Reply(written, FALSE, "Reversal callback processing failed", id)
            ELSE Reply([contributions |-> written.contributions, funding |-> debited],
                       TRUE, "Reversal callback processed successfully", id)

\* ------------------------------------------------------ callback routes
RouteReply(r, http) ==
  [db |-> r.db, success |-> r.success, message |-> r.message, cid |-> r.cid,
   http |-> http]

\* router.post('/mpesa/callback/contributions'): test bodies are answered by
\* the route itself, then the module check, then the MPesa class; whatever
\* the class returns goes out with status 200.
postChargeCallback(db, loaded, p, rpcError, readFirst, fault) ==
  IF p.shape = "test"
  THEN RouteReply(Reply(db, TRUE, "Test callback received successfully", 0), 200)
  ELSE IF ~loaded
  THEN RouteReply(Reply(db, FALSE, "Payment service unavailable", 0), 500)
  ELSE RouteReply(handleContributionCallback(db, p, rpcError, readFirst, fault), 200)

\* router.post('/mpesa/callback/reversal').
postReversalCallback(db, loaded, p, rpcError, fault) ==
  IF ~loaded
  THEN RouteReply(Reply(db, FALSE, "Payment service unavailable", 0), 500)
  ELSE RouteReply(handleReversalCallback(db, p, rpcError, fault), 200)

\* ------------------------------------------------------- admin refund
\* can_retry: the field of that name in the body, "absent" when the body
\* has none.
Answer(db, http, message, gwCalls) ==
  [db |-> db, http |-> http, message |-> message, gwCalls |-> gwCalls,
   can_retry |-> "absent"]

\* "Check if contribution exists and is completed".
isRefundable_orPending(contribution) == contribution.status \in {"completed", "pending"}
isRefundable(contribution) == contribution.status = "completed"

\* `Contribution is already ${contribution.status}`.
alreadyMessage(status) ==
  CASE status = "refunded" -> "Contribution is already refunded"
    [] status = "refund_pending" -> "Contribution is already refund_pending"
    [] status = "refund_failed" -> "Contribution is already refund_failed"
    [] OTHER -> "Contribution is already"

\* The row written when mpesa.initiateReversal throws.
refundFailedRow_noError(contribution, message) ==
  [contribution EXCEPT !.status = "refund_failed"]
refundFailedRow(contribution, message) ==
  [contribution EXCEPT !.status = "refund_failed", !.refund_error = message]

\* router.post('/contributions/:id/refund').  gwCalls counts the calls of
\* mpesa.initiateReversal the handler makes.
postRefund(db, loaded, id, gw) ==
  IF ~db.contributions[id].exists
  THEN Answer(db, 404, "Contribution not found", 0)
  ELSE
    LET contribution == db.contributions[id] IN
    IF ~isRefundable(contribution)
    THEN Answer(db, 400, "Only completed contributions can be refunded", 0)
    ELSE IF contribution.status \in {"refunded", "refund_pending", "refund_failed"}
    THEN Answer(db, 400, alreadyMessage(contribution.status), 0)
    ELSE IF contribution.payment_method = "mpesa" /\ contribution.transaction_id # Null
    THEN
      IF ~loaded THEN Answer(db, 500, "Server error processing refund", 0) ELSE
      LET reversalResult ==
            initiateReversal(contribution.transaction_id, contribution.amount, gw)
      IN IF reversalResult.success
         THEN Answer(contributions_update(db, id,
                       [contribution EXCEPT
                          !.status = "refund_pending",
                          !.reversal_conversation_id = reversalResult.ConversationID,
                          !.reversal_originator_conversation_id =
                             reversalResult.OriginatorConversationID]),
                     200, "M-Pesa reversal initiated successfully", 1)
         ELSE Answer(contributions_update(db, id,
                       refundFailedRow(contribution, reversalResult.message)),
                     500, "M-Pesa reversal initiation failed", 1)
    ELSE
      LET written == contributions_update(db, id,
                       [contribution EXCEPT !.status = "refunded"])
          c == contribution.campaign_id
      IN Answer([contributions |-> written.contributions,
                 funding |-> campaigns_update(written.funding, c,
                               Max(0, written.funding[c] - contribution.amount))],
                200, "Contribution refunded successfully", 0)

\* ---------------------------------------------------------- contribute
FreeIds(db) == {c \in DOMAIN db.contributions : ~db.contributions[c].exists}

\* The status the contribute route answers when initiateSTKPush threw, from
\* the words of the error message, and its hint "can_retry: statusCode >= 500".
initiationStatus(message) ==
  IF message = "M-Pesa service timeout - please try again" THEN 504 ELSE 500

canRetry(statusCode) == IF statusCode >= 500 THEN "true" ELSE "false"

\* router.post('/:id/contribute') for an active campaign and a contributor
\* with a phone number; id is the key the insert gives the new row.
postContribute(db, loaded, id, campaignId, amount, gw) ==
  IF amount <= 0 THEN Answer(db, 400, "Invalid contribution amount", 0)
  ELSE
    LET row == [NoRow EXCEPT !.exists = TRUE, !.campaign_id = campaignId,
                             !.amount = amount, !.status = "pending"]
        inserted == [contributions |-> [db.contributions EXCEPT ![id] = row],
                     funding |-> update_campaign_funding(db.funding, "none", row)]
        mpesaResponse == initiateSTKPush(Halves(MathFloor(Halves(amount))), id, gw)
    IN IF ~loaded
       THEN Answer(contributions_update(inserted, id, [row EXCEPT !.status = "failed"]),
                   503, "Payment service temporarily unavailable. Please try again later.", 0)
       ELSE IF mpesaResponse.success
       THEN Answer(contributions_update(inserted, id,
                     [row EXCEPT !.mpesa_checkout_request_id =
                                    mpesaResponse.CheckoutRequestID]),
                   200, "Payment initiated successfully", 1)
       ELSE [Answer(contributions_update(inserted, id, [row EXCEPT !.status = "failed"]),
                    initiationStatus(mpesaResponse.message),
                    mpesaResponse.message, 1)
               EXCEPT !.can_retry = canRetry(initiationStatus(mpesaResponse.message))]

\* --------------------------------------------------------------- inputs
ChargePayload(shape, checkout, rc, items) ==
  [shape |-> shape, CheckoutRequestID |-> checkout, ResultCode |-> rc, Item |-> items]

\* The Amount a callback body echoes; no contribution is of this amount.
EchoedAmount == MaxAmount + 5

Metadatas ==
  { <<>>,
    <<Item("MpesaReceiptNumber", "RA"), Item("PhoneNumber", "P1")>>,
    <<Item("PhoneNumber", "P1"), Item("Amount", Num(EchoedAmount)),
      Item("MpesaReceiptNumber", "RB")>> }

\* Callback bodies POSTed to /mpesa/callback/contributions.  The route is
\* unauthenticated: a body may be malformed, and may name a checkout id no
\* contribution has (MaxContrib + 1).
ChargePayloads ==
  { ChargePayload("test", 0, Num(0), <<>>),
    ChargePayload("noBody", 0, Num(0), <<>>),
    ChargePayload("stk", 0, Num(0), <<>>),
    ChargePayload("stk", MaxContrib + 1, Num(0), <<Item("MpesaReceiptNumber", "RA")>>) }
  \cup { ChargePayload("stk", co, rc, m) :
           co \in ContribIds, rc \in {Num(0), Num(1032), Str(0)}, m \in Metadatas }
  \cup { ChargePayload("stk", co, Undef, <<>>) : co \in ContribIds }

ReversalPayload(shape, rc, conv, tx, params) ==
  [shape |-> shape, ResultCode |-> rc, ConversationID |-> conv,
   TransactionID |-> tx, ResultParameter |-> params]

\* Callback bodies POSTed to /mpesa/callback/reversal.
ReversalPayloads ==
  { ReversalPayload("noResult", Num(0), Null, Null, <<>>) }
  \cup { ReversalPayload("result", rc, "AG1", k[1], k[2]) :
           rc \in {Num(0), Num(1), Num(21), Str(0), Undef},
           k \in { <<Null, <<>> >>,
                   <<"RA", <<Param("Amount", "1")>> >>,
                   <<Null, <<Param("OriginalTransactionID", "RA")>> >>,
                   <<"RA", <<Param("Amount", "1"), Param("OriginalTransactionID", "RB")>> >> } }

\* ------------------------------------------------------------- behaviour
DB == [contributions |-> contributions, funding |-> funding]

\* A charge callback that names no contribution: a test body, no
\* Body.stkCallback, no CheckoutRequestID, or a checkout id no row has.
ChargeOrphan(p, db) ==
  \/ p.shape \in {"test", "noBody"}
  \/ p.CheckoutRequestID = 0
  \/ ~\E c \in DOMAIN db.contributions :
        /\ db.contributions[c].exists
        /\ db.contributions[c].mpesa_checkout_request_id = p.CheckoutRequestID

\* A reversal callback that names no contribution: no Result, or neither its
\* TransactionID nor an OriginalTransactionID parameter is the
\* transaction_id of a row.
ReversalOrphan(p, db) ==
  \/ p.shape = "noResult"
  \/ ~\E c \in DOMAIN db.contributions :
        /\ db.contributions[c].exists
        /\ db.contributions[c].transaction_id # Null
        /\ \/ db.contributions[c].transaction_id = p.TransactionID
           \/ \E i \in DOMAIN p.ResultParameter :
                /\ p.ResultParameter[i].Key = "OriginalTransactionID"
                /\ p.ResultParameter[i].Value = db.contributions[c].transaction_id

Handlers == 1..MaxRequests

\* A handler slot: the request it serves, where it is (pc), the row it
\* selected at its start (snap), its updateCampaignFunding call (fund, with
\* the total its fallback select read), whether it has called
\* mpesa.initiateReversal and with what result, the status it answered, and
\* the CheckoutRequestID it got from the gateway or was sent in a callback
\* (checkout, 0 for none).
NoReversalResult ==
  [success |-> FALSE, ConversationID |-> Null, OriginatorConversationID |-> Null,
   message |-> "none"]

IdleHandler ==
  [kind |-> "idle", pc |-> "idle", cid |-> 0, snap |-> NoRow,
   fund |-> "none", readF |-> 0, called |-> FALSE,
   result |-> NoReversalResult, http |-> 0, checkout |-> 0]

\* last records the request handled last: what it was (op, and for a
\* callback its result code and the receipt it carried), the contribution it
\* resolved to (cid, 0 when none), that row (pre) and the funding totals as
\* they were before it, and the answer it got.  dup: the request before it
\* was the same callback for the same contribution.  orphan: it was a
\* callback naming no row of the table as it was.  amount: the amount, in
\* halves, of a payment initiation.  fault: what went wrong with a
\* database call while it was handled ("none": nothing).  can_retry: the
\* hint in the answer to a contribute request.
Record(op, cid, rc, receipt, orphan, gw, http, message, gwCalls) ==
  [op |-> op, cid |-> cid, rc |-> rc, receipt |-> receipt, orphan |-> orphan,
   amount |-> 0, fault |-> "none", can_retry |-> "absent",
   dup |-> (cid # 0 /\ last.op = op /\ last.cid = cid /\ last.rc = rc
            /\ last.receipt = receipt),
   gw |-> gw,
   pre |-> IF cid # 0 THEN contributions[cid] ELSE NoRow,
   preFunding |-> funding,
   http |-> http, message |-> message, gwCalls |-> gwCalls]

NoRequest ==
  [op |-> "init", cid |-> 0, rc |-> Undef, receipt |-> Null, orphan |-> FALSE,
   amount |-> 0, fault |-> "none", can_retry |-> "absent",
   dup |-> FALSE, gw |-> "none", pre |-> NoRow,
   preFunding |-> [k \in CampaignIds |-> 0],
   http |-> 0, message |-> "", gwCalls |-> 0]

Init ==
  /\ contributions = [c \in ContribIds |-> NoRow]
  /\ funding = [k \in CampaignIds |-> 0]
  /\ last = NoRequest
  /\ running = [h \in Handlers |-> IdleHandler]
  /\ mpesa \in BOOLEAN

Commit(db) ==
  /\ \A k \in CampaignIds : db.funding[k] <= MaxFunding
  /\ contributions' = db.contributions
  /\ funding' = db.funding
  /\ UNCHANGED <<running, mpesa>>

\* How the funding update of one handler run can go: the increment RPC
\* answers or errors, and on an error the fallback's select is served after
\* or before the contribution update commits.
FundingRuns == { <<FALSE, FALSE>>, <<TRUE, FALSE>>, <<TRUE, TRUE>> }

Contribute ==
  \E campaignId \in CampaignIds, amount \in 0..MaxAmount \cup {MaxChargeAmount + 1},
     gw \in GatewayOutcomes :
    /\ FreeIds(DB) # {}
    /\ LET id == CHOOSE c \in FreeIds(DB) : \A d \in FreeIds(DB) : c <= d
           r == postContribute(DB, mpesa, id, campaignId, amount, gw)
       IN /\ Commit(r.db)
          /\ last' = [Record("contribute", IF r.http = 400 THEN 0 ELSE id,
                             Undef, Null, FALSE, gw, r.http, r.message, r.gwCalls)
                        EXCEPT !.can_retry = r.can_retry]

ChargeCallback ==
  \E p \in ChargePayloads :
  \E run \in IF IsNumZero(p.ResultCode) THEN FundingRuns ELSE {<<FALSE, FALSE>>} :
    LET r == postChargeCallback(DB, mpesa, p, run[1], run[2], "none")
    IN /\ Commit(r.db)
       /\ last' = Record("chargeCallback", r.cid, p.ResultCode,
                         parseCallbackMetadata(p.Item).mpesaReceiptNumber,
                         ChargeOrphan(p, DB), "none", r.http, r.message, 0)

Refund ==
  \E id \in ContribIds, gw \in GatewayOutcomes :
    LET r == postRefund(DB, mpesa, id, gw)
    IN /\ Commit(r.db)
       /\ last' = Record("refund", id, Undef, Null, FALSE, gw, r.http, r.message, r.gwCalls)

ReversalCallback ==
  \E p \in ReversalPayloads :
  \E rpcError \in IF IsNumZero(p.ResultCode) THEN BOOLEAN ELSE {FALSE} :
    LET r == postReversalCallback(DB, mpesa, p, rpcError, "none")
    IN /\ Commit(r.db)
       /\ last' = Record("reversalCallback", r.cid, p.ResultCode, Null,
                         ReversalOrphan(p, DB), "none", r.http, r.message, 0)

Next == Contribute \/ ChargeCallback \/ Refund \/ ReversalCallback

Spec == Init /\ [][Next]_vars

\* ------------------------------------------ one request on any table
\* Each handler is a function of the request and of the tables as it finds
\* them.  StoredRows are rows as the schema of contributions admits them
\* (any of the six statuses of its CHECK constraint), whichever requests
\* or releases of the server wrote them; one request is then handled.
\* The two conversation ids are the ones an accepted reversal returns; the
\* refund route stores them together, with refund_pending, for a
\* contribution that has a transaction_id: they are on such rows only.
StoredRows(c) ==
  { row \in
  { [NoRow EXCEPT !.exists = TRUE, !.campaign_id = k, !.amount = a,
                  !.status = st, !.transaction_id = tx,
                  !.mpesa_checkout_request_id = co,
                  !.processed_at = (tx # Null),
                  !.reversal_conversation_id = rev[1],
                  !.reversal_originator_conversation_id = rev[2]] :
      k \in CampaignIds, a \in Amounts, st \in Statuses,
      tx \in {Null, "RA"}, co \in {0, c},
      rev \in { <<Null, Null>>, <<"AG1", "OR1">> } } :
    row.reversal_conversation_id # Null
      => /\ row.status \in {"refund_pending", "refunded", "refund_failed"}
         /\ row.transaction_id # Null }

AnyTableInit ==
  /\ contributions \in [ContribIds -> {NoRow} \cup UNION {StoredRows(c) : c \in ContribIds}]
  /\ \A c \in ContribIds : contributions[c] \in {NoRow} \cup StoredRows(c)
  /\ funding \in [CampaignIds -> 0..MaxFunding]
  /\ last = NoRequest
  /\ running = [h \in Handlers |-> IdleHandler]
  /\ mpesa \in BOOLEAN

\* Amounts, in halves, around the two limits of initiateSTKPush.
InitiateAmounts ==
  {Halves(0 - 1), 0 - 1, 0, 1, Halves(1), Halves(1) + 1,
   Halves(MaxChargeAmount) - 1, Halves(MaxChargeAmount),
   Halves(MaxChargeAmount) + 1, Halves(MaxChargeAmount + 1)}

\* router.post('/initiate') for a project of the caller: the amount of the
\* body goes to mpesa.initiateSTKPush as it is.  The payments table the
\* route then writes is not part of the model.
postInitiate(loaded, amount, projectId, gw) ==
  IF ~loaded THEN [http |-> 500, message |-> "Error initiating payment", sent |-> FALSE]
  ELSE LET mpesaResponse == initiateSTKPush(amount, projectId, gw)
       IN [http |-> IF mpesaResponse.success THEN 200 ELSE 500,
           message |-> mpesaResponse.message, sent |-> mpesaResponse.sent]

Initiate ==
  \E amount \in InitiateAmounts, gw \in GatewayOutcomes :
    LET r == postInitiate(mpesa, amount, 1, gw)
    IN /\ last' = [Record("initiate", 0, Undef, Null, FALSE, gw, r.http, r.message,
                           IF r.sent THEN 1 ELSE 0)
                     EXCEPT !.amount = amount]
       /\ UNCHANGED <<contributions, funding, running, mpesa>>

\* The callbacks with a database call of theirs going wrong.
ChargeCallbackFault ==
  \E p \in ChargePayloads, fault \in Faults :
    LET r == postChargeCallback(DB, mpesa, p, FALSE, FALSE, fault)
    IN /\ Commit(r.db)
       /\ last' = [Record("chargeCallback", r.cid, p.ResultCode,
                          parseCallbackMetadata(p.Item).mpesaReceiptNumber,
                          ChargeOrphan(p, DB), "none", r.http, r.message, 0)
                     EXCEPT !.fault = fault]

ReversalCallbackFault ==
  \E p \in ReversalPayloads, fault \in Faults :
    LET r == postReversalCallback(DB, mpesa, p, FALSE, fault)
    IN /\ Commit(r.db)
       /\ last' = [Record("reversalCallback", r.cid, p.ResultCode, Null,
                          ReversalOrphan(p, DB), "none", r.http, r.message, 0)
                     EXCEPT !.fault = fault]

OneRequest ==
  /\ last.op = "init"
  /\ (Next \/ Initiate \/ ChargeCallbackFault \/ ReversalCallbackFault)

SpecAnyTable == AnyTableInit /\ [][OneRequest]_vars

\* ------------------------------------------------- handlers in flight
\* The same handlers taken one await at a time, so that the database
\* statements of up to MaxRequests requests interleave, on a server whose
\* MPesa module loaded.  The charge
\* callbacks are successful ones carrying a receipt, for contributions whose
\* STK push was accepted.
ConcurrentIds == 1..MaxConcurrent

ConcurrentInit ==
  /\ contributions = [c \in ConcurrentIds |-> NoRow]
  /\ funding = [k \in CampaignIds |-> 0]
  /\ last = NoRequest
  /\ running = [h \in Handlers |-> IdleHandler]
  /\ mpesa = TRUE

\* POST /:id/contribute, run to completion.
ConcurrentContribute ==
  \E campaignId \in CampaignIds, amount \in Amounts, gw \in GatewayOutcomes :
    /\ FreeIds(DB) # {}
    /\ LET id == CHOOSE c \in FreeIds(DB) : \A d \in FreeIds(DB) : c <= d
           r == postContribute(DB, mpesa, id, campaignId, amount, gw)
       IN /\ contributions' = r.db.contributions
          /\ funding' = r.db.funding
    /\ UNCHANGED <<last, running, mpesa>>

\* A request that arrives is served by the first idle handler slot.
Takes(h) ==
  /\ running[h].kind = "idle"
  /\ \A g \in Handlers : running[g].kind = "idle" => h <= g

\* handleContributionCallback up to its select of the contribution: the
\* row is read, and whether updateCampaignFunding will be called is decided
\* from the row as read.
ChargeLookup(h) ==
  \E c \in DOMAIN contributions :
    /\ Takes(h)
    /\ contributions[c].exists
    /\ contributions[c].mpesa_checkout_request_id = c
    /\ running' = [running EXCEPT ![h] =
         [IdleHandler EXCEPT
            !.kind = "charge", !.pc = "updating", !.cid = c,
            !.snap = contributions[c],
            !.fund = IF shouldCredit(Num(0), contributions[c]) THEN "todo" ELSE "none"]]
    /\ UNCHANGED <<contributions, funding, last, mpesa>>

\* The contributions update of the Promise.all, with its trigger.
ChargeUpdateRow(h) ==
  /\ running[h].kind = "charge" /\ running[h].pc = "updating"
  /\ LET c == running[h].cid
         written == contributions_update(DB, c,
                      [contributions[c] EXCEPT
                         !.status = chargeStatus(Num(0)),
                         !.processed_at = TRUE,
                         !.transaction_id = "RA"])
     IN /\ \A k \in CampaignIds : written.funding[k] <= MaxFunding
        /\ contributions' = written.contributions
        /\ funding' = written.funding
  /\ running' = [running EXCEPT ![h].pc = "updated"]
  /\ UNCHANGED <<last, mpesa>>

\* updateCampaignFunding, the increment RPC answering.
FundingRpc(h) ==
  /\ running[h].fund = "todo"
  /\ funding' = updateCampaignFunding(funding, funding,
                   running[h].snap.campaign_id, running[h].snap.amount, FALSE)
  /\ \A k \in CampaignIds : funding'[k] <= MaxFunding
  /\ running' = [running EXCEPT ![h].fund = "done"]
  /\ UNCHANGED <<contributions, last, mpesa>>

\* updateCampaignFunding, the increment RPC answering with an error: the
\* fallback selects the campaign's current_funding ...
FundingSelect(h) ==
  /\ running[h].fund = "todo"
  /\ running' = [running EXCEPT
                   ![h].fund = "selected",
                   ![h].readF = funding[running[h].snap.campaign_id]]
  /\ UNCHANGED <<contributions, funding, last, mpesa>>

\* ... and writes what it read plus the amount.
FundingWrite(h) ==
  /\ running[h].fund = "selected"
  /\ LET k == running[h].snap.campaign_id
     IN funding' = updateCampaignFunding([funding EXCEPT ![k] = running[h].readF],
                     funding, k, running[h].snap.amount, TRUE)
  /\ \A k \in CampaignIds : funding'[k] <= MaxFunding
  /\ running' = [running EXCEPT ![h].fund = "done"]
  /\ UNCHANGED <<contributions, last, mpesa>>

\* POST /contributions/:id/refund up to its select of the contribution and
\* the checks on the row as read.
RefundStart(h) ==
  \E c \in DOMAIN contributions :
    /\ Takes(h)
    /\ LET contribution == contributions[c]
           answered == [IdleHandler EXCEPT !.kind = "refund", !.pc = "done", !.cid = c,
                                           !.snap = contribution]
       IN IF ~contribution.exists
          THEN running' = [running EXCEPT ![h] = [answered EXCEPT !.http = 404]]
          ELSE IF ~isRefundable(contribution)
          THEN running' = [running EXCEPT ![h] = [answered EXCEPT !.http = 400]]
          ELSE /\ contribution.payment_method = "mpesa"
               /\ contribution.transaction_id # Null
               /\ running' = [running EXCEPT ![h] = [answered EXCEPT !.pc = "calling"]]
    /\ UNCHANGED <<contributions, funding, last, mpesa>>

\* await mpesa.initiateReversal(...).
RefundCall(h) ==
  \E gw \in GatewayOutcomes :
    /\ running[h].kind = "refund" /\ running[h].pc = "calling"
    /\ running' = [running EXCEPT
                     ![h].pc = "writing",
                     ![h].called = TRUE,
                     ![h].result = initiateReversal(running[h].snap.transaction_id,
                                                    running[h].snap.amount, gw)]
    /\ UNCHANGED <<contributions, funding, last, mpesa>>

\* The update that follows: refund_pending with the conversation ids, or
\* in the catch refund_failed with the error.
RefundWrite(h) ==
  /\ running[h].kind = "refund" /\ running[h].pc = "writing"
  /\ LET c == running[h].cid
         reversalResult == running[h].result
         written ==
           IF reversalResult.success
           THEN contributions_update(DB, c,
                  [contributions[c] EXCEPT
                     !.status = "refund_pending",
                     !.reversal_conversation_id = reversalResult.ConversationID,
                     !.reversal_originator_conversation_id =
                        reversalResult.OriginatorConversationID])
           ELSE contributions_update(DB, c,
                  refundFailedRow(contributions[c], reversalResult.message))
     IN /\ contributions' = written.contributions
        /\ funding' = written.funding
        /\ running' = [running EXCEPT
                         ![h].pc = "done",
                         ![h].http = IF reversalResult.success THEN 200 ELSE 500]
  /\ UNCHANGED <<last, mpesa>>

\* POST /mpesa/callback/reversal with ResultCode 0 and the TransactionID of
\* a contribution, handled while other handlers are in flight.
ReversalArrives(h) ==
  \E tx \in Receipts, rpcError \in BOOLEAN :
    /\ Takes(h)
    /\ LET r == postReversalCallback(DB, mpesa,
                  ReversalPayload("result", Num(0), "AG1", tx, <<>>), rpcError, "none")
       IN /\ r.cid # 0
          /\ contributions' = r.db.contributions
          /\ funding' = r.db.funding
          /\ running' = [running EXCEPT ![h] =
                [IdleHandler EXCEPT !.kind = "reversal", !.pc = "done", !.cid = r.cid,
                                    !.snap = contributions[r.cid], !.http = r.http]]
    /\ UNCHANGED <<last, mpesa>>

\* The handler has answered: charge callbacks when both operations of the
\* Promise.all have settled, refunds when the response is sent.
Finished(h) ==
  \/ running[h].kind = "charge" /\ running[h].pc = "updated"
       /\ running[h].fund \in {"none", "done"}
  \/ running[h].kind = "refund" /\ running[h].pc = "done"

ConcurrentNext ==
  \/ ConcurrentContribute
  \/ \E h \in Handlers : ChargeLookup(h)
  \/ \E h \in Handlers : ChargeUpdateRow(h)
  \/ \E h \in Handlers : FundingRpc(h)
  \/ \E h \in Handlers : FundingSelect(h)
  \/ \E h \in Handlers : FundingWrite(h)
  \/ \E h \in Handlers : RefundStart(h)
  \/ \E h \in Handlers : RefundCall(h)
  \/ \E h \in Handlers : RefundWrite(h)
  \/ \E h \in Handlers : ReversalArrives(h)

SpecConcurrent == ConcurrentInit /\ [][ConcurrentNext]_vars

\* ----------------------------------------- contribute requests in flight
\* POST /:id/contribute taken one await at a time, with the charge callbacks
\* the gateway sends for the pushes it accepted.  First the insert of the
\* pending row ...
ContributeInsert(h) ==
  \E campaignId \in CampaignIds, amount \in Amounts :
    /\ Takes(h)
    /\ FreeIds(DB) # {}
    /\ LET id == CHOOSE c \in FreeIds(DB) : \A d \in FreeIds(DB) : c <= d
           row == [NoRow EXCEPT !.exists = TRUE, !.campaign_id = campaignId,
                                !.amount = amount, !.status = "pending"]
       IN /\ contributions' = [contributions EXCEPT ![id] = row]
          /\ funding' = update_campaign_funding(funding, "none", row)
          /\ running' = [running EXCEPT ![h] =
                [IdleHandler EXCEPT !.kind = "contribute", !.pc = "calling",
                                    !.cid = id, !.snap = row]]
    /\ UNCHANGED <<last, mpesa>>

\* ... then await mpesa.initiateSTKPush(...): an accepted push has its
\* CheckoutRequestID from here on ...
ContributeCall(h) ==
  \E gw \in GatewayOutcomes :
    /\ running[h].kind = "contribute" /\ running[h].pc = "calling"
    /\ LET mpesaResponse ==
             initiateSTKPush(Halves(MathFloor(Halves(running[h].snap.amount))),
                             running[h].cid, gw)
       IN running' = [running EXCEPT
                        ![h].pc = "storing",
                        ![h].called = TRUE,
                        ![h].checkout = mpesaResponse.CheckoutRequestID,
                        ![h].http = IF mpesaResponse.success THEN 200
                                    ELSE initiationStatus(mpesaResponse.message)]
    /\ UNCHANGED <<contributions, funding, last, mpesa>>

\* ... then the update that stores the checkout id, or in the catch the
\* update to failed.
ContributeStore(h) ==
  /\ running[h].kind = "contribute" /\ running[h].pc = "storing"
  /\ LET c == running[h].cid
         written ==
           IF running[h].http = 200
           THEN contributions_update(DB, c,
                  [contributions[c] EXCEPT
                     !.mpesa_checkout_request_id = running[h].checkout])
           ELSE contributions_update(DB, c, [contributions[c] EXCEPT !.status = "failed"])
     IN /\ contributions' = written.contributions
        /\ funding' = written.funding
  /\ running' = [running EXCEPT ![h].pc = "done"]
  /\ UNCHANGED <<last, mpesa>>

\* The CheckoutRequestIDs the gateway has returned for accepted pushes.
IssuedCheckoutIds ==
  {running[g].checkout : g \in {f \in Handlers : running[f].kind = "contribute"}} \ {0}

\* A successful charge callback for an accepted push arrives:
\* handleContributionCallback up to its select by mpesa_checkout_request_id,
\* which finds the row or answers "Contribution not found".
CallbackLookup(h) ==
  \E co \in IssuedCheckoutIds :
    /\ Takes(h)
    /\ LET id == single({c \in DOMAIN contributions :
                    /\ contributions[c].exists
                    /\ contributions[c].mpesa_checkout_request_id = co})
       IN running' = [running EXCEPT ![h] =
            IF id = 0
            THEN [IdleHandler EXCEPT !.kind = "charge", !.pc = "done",
                                     !.checkout = co, !.http = 200]
            ELSE [IdleHandler EXCEPT
                    !.kind = "charge", !.pc = "updating", !.cid = id,
                    !.checkout = co, !.snap = contributions[id],
                    !.fund = IF shouldCredit(Num(0), contributions[id])
                             THEN "todo" ELSE "none"]]
    /\ UNCHANGED <<contributions, funding, last, mpesa>>

ContributeNext ==
  \/ \E h \in Handlers : ContributeInsert(h)
  \/ \E h \in Handlers : ContributeCall(h)
  \/ \E h \in Handlers : ContributeStore(h)
  \/ \E h \in Handlers : CallbackLookup(h)
  \/ \E h \in Handlers : ChargeUpdateRow(h)
  \/ \E h \in Handlers : FundingRpc(h)
  \/ \E h \in Handlers : FundingSelect(h)
  \/ \E h \in Handlers : FundingWrite(h)

SpecContribute == ConcurrentInit /\ [][ContributeNext]_vars

\* ================================================================ claims
Row(c) == contributions[c]
Hit(op, c) == last.op = op /\ last.cid = c /\ last.pre.exists

RECURSIVE SumAmounts(_)
SumAmounts(S) ==
  IF S = {} THEN 0
  ELSE LET c == CHOOSE x \in S : TRUE
       IN contributions[c].amount + SumAmounts(S \ {c})

CompletedOf(k) ==
  {c \in ContribIds : Row(c).exists /\ Row(c).campaign_id = k /\ Row(c).status = "completed"}

C2_ReversalCallbackIdempotent ==
  \A c \in ContribIds :
    /\ (Hit("reversalCallback", c) /\ last.pre.status \in {"refunded", "refund_failed"})
         => (Row(c).status = last.pre.status /\ funding = last.preFunding)
    /\ (Hit("reversalCallback", c) /\ last.dup /\ IsNumZero(last.rc))
         => funding = last.preFunding

\* C3: every campaign's funding total is the sum of the amounts of its
\* contributions that are completed now, and is never negative.
C3_LedgerInvariant ==
  \A k \in CampaignIds :
    funding[k] = SumAmounts(CompletedOf(k)) /\ funding[k] >= 0

\* C4: a status is one of the six, and a handler changes a contribution's
\* status only along pending->completed, pending->failed,
\* completed->refund_pending, refund_pending->refunded and
\* refund_pending->refund_failed.
AllowedEdges ==
  { <<"pending", "completed">>, <<"pending", "failed">>,
    <<"completed", "refund_pending">>, <<"refund_pending", "refunded">>,
    <<"refund_pending", "refund_failed">> }

C4_StatusEdges ==
  \A c \in ContribIds :
    /\ Row(c).exists => Row(c).status \in Statuses
    /\ (last.cid = c /\ last.pre.exists /\ Row(c).status # last.pre.status)
         => <<last.pre.status, Row(c).status>> \in AllowedEdges

\* C5: a charge callback that resolves to a contribution no longer pending
\* is acknowledged and leaves its status, its transaction_id and every
\* funding total unchanged.
C5_ChargeCallbackOnSettled ==
  \A c \in ContribIds :
    (Hit("chargeCallback", c) /\ last.pre.status # "pending")
      => /\ last.http = 200
         /\ Row(c).status = last.pre.status
         /\ Row(c).transaction_id = last.pre.transaction_id
         /\ funding = last.preFunding

\* C6: a ResultCode 0 charge callback carrying receipt R for a pending
\* contribution leaves it completed with transaction_id R and processed_at
\* set, and its campaign's funding total larger by exactly its amount.
C6_SuccessfulCharge ==
  \A c \in ContribIds :
    (Hit("chargeCallback", c) /\ last.pre.status = "pending"
       /\ IsNumZero(last.rc) /\ last.receipt # Null)
      => /\ Row(c).status = "completed"
         /\ Row(c).transaction_id = last.receipt
         /\ Row(c).processed_at
         /\ funding = [last.preFunding EXCEPT
                         ![Row(c).campaign_id] = @ + Row(c).amount]

\* C7: a charge callback with a result code other than 0 for a pending
\* contribution leaves it failed and every funding total unchanged.
C7_FailedCharge ==
  \A c \in ContribIds :
    (Hit("chargeCallback", c) /\ last.pre.status = "pending"
       /\ last.rc.t # "undef" /\ ~IsNumZero(last.rc))
      => /\ Row(c).status = "failed"
         /\ funding = last.preFunding

C7_Witness ==
  \E c \in ContribIds :
    /\ Hit("chargeCallback", c) /\ last.pre.status = "pending"
    /\ last.rc = Num(1032)
    /\ Row(c).status = "failed"

\* C8: a refund request for a contribution that is not completed is answered
\* 400 "Only completed contributions can be refunded", calls
\* initiateReversal not once, and changes neither the contribution nor any
\* funding total.
C8_RefundNeedsCompleted ==
  \A c \in ContribIds :
    (Hit("refund", c) /\ last.pre.status # "completed")
      => /\ last.http = 400
         /\ last.message = "Only completed contributions can be refunded"
         /\ last.gwCalls = 0
         /\ Row(c) = last.pre
         /\ funding = last.preFunding

C8_Witness ==
  \E c \in ContribIds :
    /\ Hit("refund", c) /\ last.pre.status = "pending"
    /\ last.http = 400
    /\ Row(c).status = "pending"

\* C9: a refund request for a completed M-Pesa contribution with a receipt,
\* the gateway accepting the reversal, leaves the contribution
\* refund_pending with both conversation ids stored and every funding total
\* unchanged.
C9_RefundAccepted ==
  \A c \in ContribIds :
    (Hit("refund", c) /\ last.pre.status = "completed"
       /\ last.pre.payment_method = "mpesa" /\ last.pre.transaction_id # Null
       /\ last.gw = "accept")
      => /\ Row(c).status = "refund_pending"
         /\ Row(c).reversal_conversation_id # Null
         /\ Row(c).reversal_originator_conversation_id # Null
         /\ funding = last.preFunding

\* C10: when initiateReversal fails during a refund request for a completed
\* contribution, the contribution ends refund_failed with the error message
\* recorded, every funding total is unchanged and initiateReversal was
\* called once.
C10_RefundInitiationFails ==
  \A c \in ContribIds :
    (Hit("refund", c) /\ last.pre.status = "completed" /\ mpesa
       /\ last.pre.payment_method = "mpesa" /\ last.pre.transaction_id # Null
       /\ ~initiateReversal(last.pre.transaction_id, last.pre.amount, last.gw).success)
      => /\ Row(c).status = "refund_failed"
         /\ Row(c).refund_error =
              initiateReversal(last.pre.transaction_id, last.pre.amount, last.gw).message
         /\ Row(c).refund_error # Null
         /\ funding = last.preFunding
         /\ last.gwCalls = 1

C10_Witness ==
  \E c \in ContribIds :
    /\ Hit("refund", c) /\ last.pre.status = "completed"
    /\ last.pre.transaction_id # Null
    /\ last.gw = "reject"
    /\ Row(c).status = "refund_failed"
    /\ funding[Row(c).campaign_id] > 0

\* The handlers that have called mpesa.initiateReversal for contribution c.
ReversalCallers(c) ==
  {h \in Handlers : running[h].kind = "refund" /\ running[h].cid = c /\ running[h].called}

\* C11: however the refund requests for one contribution interleave,
\* mpesa.initiateReversal is called for it by at most one of them, and every
\* other request for it is answered 400.
C11_OneReversalInFlight ==
  \A c \in DOMAIN contributions :
    /\ Cardinality(ReversalCallers(c)) <= 1
    /\ \A h \in Handlers :
         (running[h].kind = "refund" /\ running[h].cid = c /\ running[h].pc = "done"
            /\ running[h].snap.exists /\ ReversalCallers(c) \ {h} # {})
           => running[h].http = 400

\* C12: a reversal callback with result code 0 or 21, number or string, for
\* a contribution in refund_pending leaves it refunded and its campaign's
\* funding total smaller by its amount.
SuccessCodes == {Num(0), Num(21), Str(0), Str(21)}

C12_ReversalSucceeds ==
  \A c \in ContribIds :
    (Hit("reversalCallback", c) /\ last.pre.status = "refund_pending"
       /\ last.rc \in SuccessCodes)
      => /\ Row(c).status = "refunded"
         /\ funding = [last.preFunding EXCEPT
                         ![Row(c).campaign_id] = Max(@ - Row(c).amount, 0)]

\* C13: a reversal callback with a result code other than 0 and 21 for a
\* contribution in refund_pending leaves it refund_failed and every funding
\* total unchanged.
C13_ReversalFails ==
  \A c \in ContribIds :
    (Hit("reversalCallback", c) /\ last.pre.status = "refund_pending"
       /\ last.rc.t # "undef" /\ last.rc \notin SuccessCodes)
      => /\ Row(c).status = "refund_failed"
         /\ funding = last.preFunding

\* C14: both callback endpoints answer every delivery with HTTP 200.
C14_CallbacksAnswer200 ==
  last.op \in {"chargeCallback", "reversalCallback"} => last.http = 200

\* C15: a callback that names no contribution (test body, missing
\* Body.stkCallback or Result, missing or unknown identifier) leaves every
\* contribution row and every funding total as it was, and adds no row.
C15_OrphanCallbackChangesNothing ==
  [][(last'.op \in {"chargeCallback", "reversalCallback"} /\ last'.orphan)
       => (contributions' = contributions /\ funding' = funding)]_vars

C15_Witness ==
  \E c \in ContribIds :
    /\ Row(c).exists /\ Row(c).status = "completed" /\ funding[Row(c).campaign_id] > 0
    /\ last.op \in {"chargeCallback", "reversalCallback"} /\ last.orphan
    /\ last.message \in {"Contribution not found", "Original contribution not found"}

\* C16: when the STK push of a contribute request times out, the
\* contribution created for the request is left pending.
C16_TimeoutStaysPending ==
  \A c \in ContribIds :
    (last.op = "contribute" /\ last.cid = c /\ mpesa /\ last.gw = "timeout"
       /\ last.message = "M-Pesa service timeout - please try again")
      => (Row(c).exists /\ Row(c).status = "pending")

\* C17: initiateSTKPush sends nothing to the gateway and fails for every
\* amount whose whole part is 0, negative or above 300000 (an amount below
\* 1, or 300001 and more), and sends the push for the whole amounts 1 to
\* 300000.
C17_AmountLimits ==
  (last.op = "initiate" /\ mpesa)
    => /\ (last.amount < Halves(1) \/ last.amount >= Halves(MaxChargeAmount + 1))
            => (last.http # 200 /\ last.gwCalls = 0)
       /\ (last.amount \in {Halves(n) : n \in {1, 2, MaxChargeAmount}})
            => (last.gwCalls = 1 /\ (last.gw = "accept" => last.http = 200))

C17_Witness ==
  /\ last.op = "initiate" /\ mpesa
  /\ last.amount = Halves(MaxChargeAmount) + 1
  /\ last.gw = "accept" /\ last.http = 200

\* C18: what a charge callback leaves in the tables does not depend on the
\* Amount or PhoneNumber item of its metadata: the same callback with
\* another Amount, without Amount or without PhoneNumber leaves the same
\* contribution rows (their amounts included) and the same funding totals.
NotAmount(item) == item.Name # "Amount"
NotPhone(item) == item.Name # "PhoneNumber"

Tampered(p) ==
  { [p EXCEPT !.Item = SelectSeq(@, NotAmount)],
    [p EXCEPT !.Item = SelectSeq(@, NotPhone)] }
  \cup { [p EXCEPT !.Item = <<Item("Amount", Num(a))>> \o SelectSeq(@, NotAmount)] :
           a \in Amounts \cup {EchoedAmount} }

AfterRowUpdate(c) ==
  update_campaign_funding(last.preFunding, last.pre.status,
                          [last.pre EXCEPT !.status = "refunded"])

C19_DebitClampsAtZero ==
  /\ \A k \in CampaignIds : funding[k] >= 0
  /\ \A c \in ContribIds :
       LET k == last.pre.campaign_id
           debited == [AfterRowUpdate(c) EXCEPT ![k] = Max(@ - last.pre.amount, 0)]
       IN /\ (Hit("reversalCallback", c) /\ IsNumZero(last.rc)) => funding = debited
          /\ (Hit("refund", c) /\ last.message = "Contribution refunded successfully")
               => funding = debited

\* C20: no ledger update is lost under concurrency.  When the charge
\* callbacks of two different contributions of one campaign have both run
\* to their end, and nothing else has been served, the campaign's total
\* holds at least the sum of the two amounts, whatever the interleaving of
\* their steps and whether the credit went through the RPC or through the
\* select-then-update fallback.  (The spec says the total grows by exactly
\* the sum; the lower bound is the part that speaks of lost updates.)
TwoChargesDone(g, h) ==
  /\ g < h
  /\ running[g].kind = "charge" /\ running[h].kind = "charge"
  /\ running[g].cid # running[h].cid
  /\ running[g].snap.campaign_id = running[h].snap.campaign_id
  /\ running[g].fund = "done" /\ running[h].fund = "done"
  /\ Finished(g) /\ Finished(h)
  /\ \A i \in Handlers \ {g, h} : running[i].kind = "idle"

C20_NoLostUpdate ==
  \A g, h \in Handlers :
    TwoChargesDone(g, h) =>
      funding[running[g].snap.campaign_id]
        >= running[g].snap.amount + running[h].snap.amount

\* C21: of the charge callbacks handled at the same time for one
\* CheckoutRequestID, at most one takes the contribution out of pending
\* (writes the row it read as pending), and at most one credits the
\* campaign through updateCampaignFunding.
PendingWriters(c) ==
  {h \in Handlers : /\ running[h].kind = "charge" /\ running[h].cid = c
                    /\ running[h].snap.status = "pending"
                    /\ running[h].pc = "updated"}

Creditors(c) ==
  {h \in Handlers : /\ running[h].kind = "charge" /\ running[h].cid = c
                    /\ running[h].fund = "done"}

C21_OneCallbackWins ==
  \A c \in DOMAIN contributions :
    /\ Cardinality(PendingWriters(c)) <= 1
    /\ Cardinality(Creditors(c)) <= 1

\* C22: completing a contribution and crediting its campaign go together.
\* When a charge callback has been handled, whether its database calls
\* succeeded or one of them failed, the contribution it resolved to has not
\* become completed without its campaign's total growing, and the total has
\* not grown while the contribution is not completed.
C22_CompletedIffCredited ==
  \A c \in ContribIds :
    Hit("chargeCallback", c) =>
      LET k == last.pre.campaign_id
      IN /\ (Row(c).status = "completed" /\ last.pre.status # "completed")
              => funding[k] > last.preFunding[k]
         /\ funding[k] > last.preFunding[k] => Row(c).status = "completed"

\* C23: only the two callback handlers move a funding total: a contribute
\* request and an admin refund request, whatever the contribution (one
\* paid otherwise than by M-Pesa or one without a receipt included), leave
\* every funding total as it was.
C23_OnlyCallbacksMoveFunding ==
  last.op \in {"contribute", "refund"} => funding = last.preFunding

\* C24: a refund request for a contribution that is refund_pending,
\* refunded or refund_failed is answered 400 with a message that names
\* that status, and changes nothing.
C24_RefundStateNamed ==
  \A c \in ContribIds :
    (Hit("refund", c)
       /\ last.pre.status \in {"refund_pending", "refunded", "refund_failed"})
      => /\ last.http = 400
         /\ last.message = alreadyMessage(last.pre.status)
         /\ Row(c) = last.pre /\ funding = last.preFunding

\* C25: the answer to a contribute request whose payment initiation failed
\* tells the caller whether to retry: a validation failure (an amount
\* outside 1..300000, a missing parameter) is not reported with can_retry
\* true (a body without the field counting as false), and a gateway timeout
\* is reported with can_retry true.
ValidationMessages ==
  { "Invalid contribution amount",
    "Payment initiation failed: Invalid amount: must be between 1 and 300,000 KES",
    "Payment initiation failed: Missing required parameters for STK push" }

C25_RetryHint ==
  (last.op = "contribute" /\ mpesa)
    => /\ last.message \in ValidationMessages => last.can_retry # "true"
       /\ last.message = "M-Pesa service timeout - please try again"
            => last.can_retry = "true"

C27_ResolvesByConversationId ==
  \A c \in ContribIds :
    (/\ last.op = "reversalCallback" /\ last.http = 200
     /\ last.message # "Invalid reversal callback format"
     /\ Row(c).exists /\ Row(c).reversal_conversation_id = "AG1")
      => last.cid = c

\* C28: a reversal callback that resolves to a contribution for which no
\* refund was requested (pending, completed or failed) leaves its status
\* and every funding total unchanged.
C28_ReversalNeedsRefundPending ==
  \A c \in ContribIds :
    (Hit("reversalCallback", c)
       /\ last.pre.status \in {"pending", "completed", "failed"})
      => /\ Row(c).status = last.pre.status
         /\ funding = last.preFunding

C30_CallbackFindsContribution ==
  \A h \in Handlers :
    (running[h].kind = "charge" /\ running[h].checkout # 0)
      => running[h].cid = running[h].checkout

====
